---------------------------- MODULE Spec2Model ----------------------------
(***************************************************************************)
(* A model of the schema engine of warehouse (src/unnamed/part_000 is the  *)
(* Schema class with its UpdateParser and QueryParser, src/src/            *)
(* schematype.ts the base SchemaType).                                     *)
(*                                                                         *)
(* Strings.  A JavaScript string is modelled by the sequence of its        *)
(* '.'-separated segments, as String.prototype.split('.') gives them:      *)
(* 'a' is <<"a">>, 'a.x' is <<"a", "x">>, '' is <<"">>, 'a.' is            *)
(* <<"a", "">> and '.a' is <<"", "a">>.  Concatenation joins the last      *)
(* segment of the left string with the first of the right one.             *)
(*                                                                         *)
(* Mappings.  A JavaScript object literal is modelled by the sequence of   *)
(* its entries in Object.keys order.                                       *)
(***************************************************************************)
EXTENDS Integers, Sequences, FiniteSets, TLC

VARIABLES
    paths,      \* Schema.paths: path name -> SchemaType
    stacks,     \* Schema.stacks: getter, setter, import, export
    hooks,      \* Schema.hooks: pre and post, each with save and remove
    methods,    \* Schema.methods: name -> function
    statics,    \* Schema.statics: name -> function
    last,       \* the registration call made last
    err,        \* the error the last call raised, "none" when it returned
    calls,      \* number of registration calls made so far
    kind,       \* which compiler the run exercises: query, update, sort, populate
    input,      \* the query / update / sort / populate expression
    doc,        \* the document the compiled closure is applied to
    docB,       \* the second document of a sort comparison
    stack,      \* the compiled stack of closures
    pc,         \* start -> compiled -> applied -> again
    res,        \* what the application returned
    out,        \* the document after the first application of the mutators
    out2        \* the document after the second application of the mutators

schemaVars == <<paths, stacks>>
registryVars == <<hooks, methods, statics>>
compileVars == <<kind, input, doc, docB, stack, pc, res, out, out2>>
vars ==
    <<paths, stacks, hooks, methods, statics, last, err, calls,
      kind, input, doc, docB, stack, pc, res, out, out2>>

-----------------------------------------------------------------------------
(* Bounds of the model.                                                    *)

MaxCalls == 2
MaxNum == 2

-----------------------------------------------------------------------------
(* Strings as segment sequences.                                           *)

Front(s) == SubSeq(s, 1, Len(s) - 1)
Last(s) == s[Len(s)]

\* s + t
StrCat(s, t) == Front(s) \o <<Last(s) \o Head(t)>> \o Tail(t)

\* a bug: `${s}${t}`, the separator forgotten
DotJoin_NoSeparator(s, t) == StrCat(s, t)

\* `${s}.${t}`
DotJoin(s, t) == s \o t

\* `${s}.`
WithDot(s) == s \o <<"">>

EmptyStr == <<"">>

\* !key: the empty string is falsy
IsEmptyStr(s) == s = EmptyStr

\* prefix.substring(0, prefix.length - 1) of a string that ends with '.'
DropLastChar(s) == Front(s)

DollarNames ==
    {"$and", "$or", "$nor", "$not", "$where", "$exist", "$exists", "$ne",
     "$lt", "$lte", "$gt", "$gte", "$max", "$min", "$in", "$nin",
     "$set", "$unset", "$rename", "$inc", "$foo"}

\* key[0] === '$'
StartsWithDollar(key) == Head(key) \in DollarNames

-----------------------------------------------------------------------------
(* JSON values of the query / update / sort documents.                     *)

Undefined == [t |-> "undef", n |-> 0, s |-> <<>>, e |-> <<>>]
Num(n) == [t |-> "num", n |-> n, s |-> <<>>, e |-> <<>>]
Bool(b) == [t |-> "bool", n |-> IF b THEN 1 ELSE 0, s |-> <<>>, e |-> <<>>]
Str(s) == [t |-> "str", n |-> 0, s |-> s, e |-> <<>>]
Fn(n) == [t |-> "fn", n |-> n, s |-> <<>>, e |-> <<>>]
NaN == [t |-> "nan", n |-> 0, s |-> <<>>, e |-> <<>>]
Map(e) == [t |-> "map", n |-> 0, s |-> <<>>, e |-> e]
List(e) == [t |-> "list", n |-> 0, s |-> <<>>, e |-> e]
Entry(k, v) == [k |-> k, v |-> v]

\* isPlainObject(v)
isPlainObject(v) == v.t = "map"

\* JavaScript truthiness
Truthy(v) ==
    CASE v.t = "undef" -> FALSE
      [] v.t = "num" -> v.n # 0
      [] v.t = "bool" -> v.n = 1
      [] v.t = "str" -> v.s # EmptyStr
      [] v.t = "nan" -> FALSE
      [] OTHER -> TRUE

-----------------------------------------------------------------------------
(* Documents and the path accessor (util.getProp / setProp / delProp).     *)
(* A document, and every value read out of one, is a tree: a function from *)
(* the paths below its root to nodes.  The root is the path <<>>; a        *)
(* mapping is a node of type "map" whose own keys are the one-segment      *)
(* extensions of its path; a key that is present and holds undefined is a  *)
(* node of type "undef".                                                   *)

MapNode == Map(<<>>)

\* a literal that is no mapping, as a runtime value
Lit(v) == <<>> :> v

UndefT == Lit(Undefined)
EmptyDoc == Lit(MapNode)

Root(tree) == tree[<<>>]

IsPrefix(p, q) == Len(p) <= Len(q) /\ SubSeq(q, 1, Len(p)) = p

\* x === undefined
IsUndefined(tree) == Root(tree).t = "undef"

\* undefined, used as a property key: Object.keys(update)[i] past the end
UndefinedKey == <<>>

\* getProp(data, key) raises on a key that is no string
getPropRaises(key) == key = UndefinedKey

getProp(data, key) ==
    IF key \in DOMAIN data
    THEN [q \in {SubSeq(p, Len(key) + 1, Len(p)) :
                   p \in {r \in DOMAIN data : IsPrefix(key, r)}}
            |-> data[key \o q]]
    ELSE UndefT

\* the proper, non-empty prefixes of key
Intermediates(key) == {SubSeq(key, 1, i) : i \in 1..(Len(key) - 1)}

\* an intermediate that is present and neither a mapping nor undefined
Blocked(data, key) ==
    \E q \in Intermediates(key) :
        q \in DOMAIN data /\ data[q].t \notin {"map", "undef"}

setPropRaises(data, key) == key = UndefinedKey \/ Blocked(data, key)

\* precondition: ~setPropRaises(data, key)
setProp(data, key, value) ==
    LET kept == {p \in DOMAIN data :
                   ~IsPrefix(key, p)
                   /\ ~(\E q \in Intermediates(key) :
                          IsPrefix(q, p) /\ data[q].t = "undef")}
        added == {key \o q : q \in DOMAIN value}
    IN  [p \in kept \cup Intermediates(key) \cup added |->
            IF p \in added THEN value[SubSeq(p, Len(key) + 1, Len(p))]
            ELSE IF p \in Intermediates(key) THEN MapNode
            ELSE data[p]]

delProp(data, key) ==
    [p \in {r \in DOMAIN data : ~IsPrefix(key, r)} |-> data[p]]

-----------------------------------------------------------------------------
(* SchemaType (src/src/schematype.ts).  A type is a record: tag is the     *)
(* class name, name and the options are what the constructor was given,    *)
(* child holds the child type of an Array.                                 *)

NoRef == <<"">>

Type(tag, name, required, ref, child) ==
    [tag |-> tag, name |-> name, required |-> required, ref |-> ref, child |-> child]

\* new SchemaType(name)
SchemaType(name) == Type("SchemaType", name, FALSE, NoRef, <<>>)

\* value == null
IsNullish(tree) == Root(tree).t = "undef"

\* ToNumber of a value, for the relational operators; NaN is no number
IsNumber(tree) == Root(tree).t \in {"num", "bool"}
ToNumber(tree) == Root(tree).n

\* a > b
Greater(a, b) == IsNumber(a) /\ IsNumber(b) /\ ToNumber(a) > ToNumber(b)
\* a < b
Less(a, b) == IsNumber(a) /\ IsNumber(b) /\ ToNumber(a) < ToNumber(b)
\* a >= b
GreaterEq(a, b) == IsNumber(a) /\ IsNumber(b) /\ ToNumber(a) >= ToNumber(b)
\* a <= b
LessEq(a, b) == IsNumber(a) /\ IsNumber(b) /\ ToNumber(a) <= ToNumber(b)

\* a === b: primitives by type and value, an object only with itself
StrictEq(a, b) ==
    /\ Root(a).t \in {"undef", "num", "bool", "str"}
    /\ Root(a) = Root(b)

validateRaises(type, value) == type.required /\ IsNullish(value)

validate(type, value) == value

compare(type, a, b) ==
    IF Greater(a, b) THEN 1
    ELSE IF Less(a, b) THEN -1
    ELSE 0

parse(type, value) == value

match(type, value, query) == StrictEq(value, Lit(query))

q_exist(type, value, query) == StrictEq(Lit(Bool(~IsNullish(value))), Lit(query))

q_ne(type, value, query) == ~match(type, value, query)

q_lt(type, value, query) == Less(value, Lit(query))

q_lte(type, value, query) == LessEq(value, Lit(query))

q_gt(type, value, query) == Greater(value, Lit(query))

q_gte(type, value, query) == GreaterEq(value, Lit(query))

\* query.includes(value)
q_in(type, value, query) ==
    \E i \in 1..Len(query.e) : StrictEq(value, Lit(query.e[i]))

q_nin(type, value, query) == ~q_in(type, value, query)

\* the q$ methods of the prototype, with the aliases of lines 291-295
QueryMethods ==
    {"q$exist", "q$exists", "q$ne", "q$lt", "q$lte", "q$gt", "q$gte",
     "q$max", "q$min", "q$in", "q$nin"}

\* the u$ methods of the prototype
UpdateMethods == {"u$set", "u$unset", "u$rename"}

-----------------------------------------------------------------------------
(* Schema declarations.  form is what path() dispatches on:                *)
(*   "null"      undefined or null                                         *)
(*   "instance"  a SchemaType instance (tag, name and options its own)     *)
(*   "function"  a constructor, tag its Function.name                      *)
(*   "array"     an array, sub its elements                                *)
(*   "typed"     a mapping with a truthy `type`, tag the type's name       *)
(*   "plain"     a mapping without `type`, sub its entries                 *)
(*   "invalid"   any other value: a number, a string, a boolean            *)

Decl(form, tag, name, required, ref, sub) ==
    [form |-> form, tag |-> tag, name |-> name, required |-> required,
     ref |-> ref, sub |-> sub]

DNull == Decl("null", "", EmptyStr, FALSE, NoRef, <<>>)
DInstance(tag, name, required) == Decl("instance", tag, name, required, NoRef, <<>>)
DFunction(tag) == Decl("function", tag, EmptyStr, FALSE, NoRef, <<>>)
DTyped(tag, required, ref) == Decl("typed", tag, EmptyStr, required, ref, <<>>)
DArray(items) == Decl("array", "", EmptyStr, FALSE, NoRef, items)
DPlain(entries) == Decl("plain", "", EmptyStr, FALSE, NoRef, entries)
DInvalid == Decl("invalid", "", EmptyStr, FALSE, NoRef, <<>>)

\* the schema with its last error, threaded through a registration call
State(p, s, e) == [paths |-> p, stacks |-> s, err |-> e]

EmptyStacks == [getter |-> <<>>, setter |-> <<>>, import |-> <<>>, export |-> <<>>]

StackNames == {"getter", "setter", "import", "export"}

\* the closure _updateStack pushes on stack k: it closes over name and type
Closure(k, name, type) == [stack |-> k, name |-> name, type |-> type]

\* getSchemaType(name, options), options a constructor or a mapping with `type`
getSchemaType(name, options) ==
    IF options.form = "function"
    THEN Type(options.tag, name, FALSE, NoRef, <<>>)
    ELSE Type(options.tag, name, options.required, options.ref, <<>>)

\* a bug: unshift for push
updateStack_Prepending(S, name, type) ==
    [S EXCEPT !.stacks =
        [k \in StackNames |-> <<Closure(k, name, type)>> \o S.stacks[k]]]

\* Schema._updateStack(name, type)
updateStack(S, name, type) ==
    [S EXCEPT !.stacks =
        [k \in StackNames |-> Append(S.stacks[k], Closure(k, name, type))]]

RECURSIVE path(_, _, _)
RECURSIVE addFrom(_, _, _, _)

\* Schema.add(schema, prefix): the loop from key i on; a raise ends it
addFrom(S, schema, prefix, i) ==
    IF i > Len(schema) \/ S.err # "none" THEN S
    ELSE addFrom(path(S, StrCat(prefix, schema[i].k), schema[i].v),
                 schema, prefix, i + 1)

add(S, schema, prefix) == addFrom(S, schema, prefix, 1)

\* Schema.path(name, obj)
path(S, name, obj) ==
    IF obj.form = "null" THEN S
    ELSE IF obj.form = "invalid" THEN [S EXCEPT !.err = "TypeError"]
    ELSE
        LET type ==
                CASE obj.form = "instance" ->
                        Type(obj.tag, obj.name, obj.required, obj.ref, <<>>)
                  [] obj.form = "function" -> getSchemaType(name, obj)
                  [] obj.form = "array" ->
                        Type("Array", name, FALSE, NoRef,
                             <<IF Len(obj.sub) > 0
                               THEN getSchemaType(name, obj.sub[1])
                               ELSE SchemaType(name)>>)
                  [] obj.form = "typed" -> getSchemaType(name, obj)
                  [] OTHER -> Type("Object", EmptyStr, FALSE, NoRef, <<>>)
            nested == obj.form = "plain" /\ Len(obj.sub) > 0
            installed ==
                updateStack([S EXCEPT !.paths = (name :> type) @@ S.paths],
                            name, type)
        IN  IF nested THEN add(installed, obj.sub, WithDot(name)) ELSE installed

\* Schema.virtual(name)
virtual(S, name) == path(S, name, DInstance("Virtual", name, FALSE))

-----------------------------------------------------------------------------
(* Hooks, methods and statics.  A value given as hook or method is a       *)
(* record: callable says whether typeof gives 'function', length is the    *)
(* number of parameters the function declares.                             *)

Callback(length) == [callable |-> TRUE, length |-> length]
NotCallable == [callable |-> FALSE, length |-> 0]

\* the constructor's this.hooks
EmptyHooks ==
    [pre |-> [save |-> <<>>, remove |-> <<>>],
     post |-> [save |-> <<>>, remove |-> <<>>]]

\* a registry with the error the call raised
Registry(r, e) == [r |-> r, err |-> e]

\* a bug: `remove` taken for an unknown hook type
checkHookTypeRaises_SaveOnly(type) == type # "save"

checkHookTypeRaises(type) == type # "save" /\ type # "remove"

\* callback-style for more than one declared parameter, else sync or promise
hookWrapper(fn) ==
    [wrap |-> IF fn.length > 1 THEN "promisify" ELSE "method", fn |-> fn]

\* Schema.pre(type, fn)
pre(H, type, fn) ==
    IF checkHookTypeRaises(type) THEN Registry(H, "TypeError")
    ELSE IF ~fn.callable THEN Registry(H, "TypeError")
    ELSE Registry([H EXCEPT !.pre[type] = Append(@, hookWrapper(fn))], "none")

\* Schema.post(type, fn)
post(H, type, fn) ==
    IF checkHookTypeRaises(type) THEN Registry(H, "TypeError")
    ELSE IF ~fn.callable THEN Registry(H, "TypeError")
    ELSE Registry([H EXCEPT !.post[type] = Append(@, hookWrapper(fn))], "none")

\* Schema.method(name, fn); M is this.methods
method(M, name, fn) ==
    IF IsEmptyStr(name) THEN Registry(M, "TypeError")
    ELSE IF ~fn.callable THEN Registry(M, "TypeError")
    ELSE Registry((name :> fn) @@ M, "none")

\* Schema.static(name, fn); M is this.statics
static(M, name, fn) ==
    IF IsEmptyStr(name) THEN Registry(M, "TypeError")
    ELSE IF ~fn.callable THEN Registry(M, "TypeError")
    ELSE Registry((name :> fn) @@ M, "none")

-----------------------------------------------------------------------------
(* The registration calls of a Schema: specification Spec.                 *)

A == <<"a">>
B == <<"b">>
X == <<"x">>
AX == <<"a", "x">>

Names == {A, B, AX}

\* the declarations path(name, obj) is called with
PathDecls ==
    {DNull, DInvalid,
     DInstance("SchemaType", A, TRUE),
     DFunction("String"),
     DTyped("Number", TRUE, NoRef),
     DArray(<<>>),
     DArray(<<DTyped("String", FALSE, <<"User">>)>>),
     DPlain(<<>>),
     DPlain(<<Entry(X, DFunction("Number"))>>)}

\* the schemas the constructor is called with; <<>> is also `no schema`
CtorSchemas ==
    {<<>>,
     <<Entry(A, DFunction("String"))>>,
     <<Entry(A, DPlain(<<Entry(X, DFunction("Number"))>>)), Entry(B, DArray(<<>>))>>}

\* the schemas add(schema) is called with
AddSchemas ==
    CtorSchemas \cup
    {<<Entry(A, DFunction("Number")), Entry(B, DInvalid)>>,
     <<Entry(B, DPlain(<<Entry(X, DFunction("String")), Entry(A, DInvalid)>>))>>,
     <<Entry(AX, DFunction("String")), Entry(A, DPlain(<<Entry(X, DFunction("Number"))>>))>>}

\* the hook kinds and functions pre, post, method and static are called with
HookTypes == {"save", "remove", "update"}
Callbacks == {Callback(1), Callback(2), NotCallable}
MethodNames == {<<"m">>, EmptyStr}

\* a registration call, as `last` records it
Call(op, name, arg) == [op |-> op, name |-> name, arg |-> arg]
NoCall == Call("new", EmptyStr, <<>>)

NoState == State(<<>>, EmptyStacks, "none")

Idle ==
    /\ kind = "schema"
    /\ input = Undefined
    /\ doc = EmptyDoc
    /\ docB = EmptyDoc
    /\ stack = <<>>
    /\ pc = "idle"
    /\ res = Undefined
    /\ out = EmptyDoc
    /\ out2 = EmptyDoc

\* new Schema(schema)
Init ==
    /\ \E schema \in CtorSchemas :
          LET S == add(NoState, schema, EmptyStr)
          IN  /\ paths = S.paths /\ stacks = S.stacks /\ err = S.err
              /\ last = Call("new", EmptyStr, schema)
    /\ hooks = EmptyHooks
    /\ methods = <<>>
    /\ statics = <<>>
    /\ calls = 0
    /\ Idle

Becomes(S) ==
    /\ paths' = S.paths
    /\ stacks' = S.stacks
    /\ err' = S.err
    /\ calls' = calls + 1
    /\ UNCHANGED <<registryVars, compileVars>>

CallPath ==
    /\ calls < MaxCalls
    /\ \E name \in Names, obj \in PathDecls :
          /\ Becomes(path(State(paths, stacks, "none"), name, obj))
          /\ last' = Call("path", name, obj)

CallAdd ==
    /\ calls < MaxCalls
    /\ \E schema \in AddSchemas :
          /\ Becomes(add(State(paths, stacks, "none"), schema, EmptyStr))
          /\ last' = Call("add", EmptyStr, schema)

CallVirtual ==
    /\ calls < MaxCalls
    /\ \E name \in Names :
          /\ Becomes(virtual(State(paths, stacks, "none"), name))
          /\ last' = Call("virtual", name, <<>>)

CallPre ==
    /\ calls < MaxCalls
    /\ \E type \in HookTypes, fn \in Callbacks :
          LET R == pre(hooks, type, fn)
          IN  /\ hooks' = R.r /\ err' = R.err
              /\ last' = Call("pre", <<type>>, fn)
    /\ calls' = calls + 1
    /\ UNCHANGED <<schemaVars, methods, statics, compileVars>>

CallPost ==
    /\ calls < MaxCalls
    /\ \E type \in HookTypes, fn \in Callbacks :
          LET R == post(hooks, type, fn)
          IN  /\ hooks' = R.r /\ err' = R.err
              /\ last' = Call("post", <<type>>, fn)
    /\ calls' = calls + 1
    /\ UNCHANGED <<schemaVars, methods, statics, compileVars>>

CallMethod ==
    /\ calls < MaxCalls
    /\ \E name \in MethodNames, fn \in Callbacks :
          LET R == method(methods, name, fn)
          IN  /\ methods' = R.r /\ err' = R.err
              /\ last' = Call("method", name, fn)
    /\ calls' = calls + 1
    /\ UNCHANGED <<schemaVars, hooks, statics, compileVars>>

CallStatic ==
    /\ calls < MaxCalls
    /\ \E name \in MethodNames, fn \in Callbacks :
          LET R == static(statics, name, fn)
          IN  /\ statics' = R.r /\ err' = R.err
              /\ last' = Call("static", name, fn)
    /\ calls' = calls + 1
    /\ UNCHANGED <<schemaVars, hooks, methods, compileVars>>

Next ==
    \/ CallPath \/ CallAdd \/ CallVirtual
    \/ CallPre \/ CallPost \/ CallMethod \/ CallStatic

Spec == Init /\ [][Next]_vars

-----------------------------------------------------------------------------
(* QueryParser (src/unnamed/part_000, lines 134-356).  A compiled          *)
(* predicate is a record holding what its closure captured.  Applying one  *)
(* gives "true", "false" or "TypeError" (the call raised).                 *)

\* this.paths[name] || new SchemaType(name)
PathOrBase(P, name) ==
    IF name \in DOMAIN P THEN P[name]
    ELSE IF name = UndefinedKey THEN SchemaType(EmptyStr)
    ELSE SchemaType(name)

queryStackNormal(P, name, query) ==
    [kind |-> "normal", path |-> PathOrBase(P, name), name |-> name, query |-> query]

queryStackOperator(P, qkey, name, query) ==
    [kind |-> "operator", path |-> PathOrBase(P, name), qkey |-> qkey,
     name |-> name, query |-> query]

RECURSIVE parseQueryFrom(_, _, _, _)
RECURSIVE parseNormalQueryFrom(_, _, _, _, _)

parseQuery(P, queries) == parseQueryFrom(P, queries, <<>>, 1)

execQuery(P, query) == [kind |-> "exec", stack |-> parseQuery(P, query)]

dollar_and(P, arr, stk) ==
    stk \o [i \in 1..Len(arr.e) |-> execQuery(P, arr.e[i])]

parseQueryArray(P, arr) == dollar_and(P, arr, <<>>)

dollar_or(P, query) == [kind |-> "or", stack |-> parseQueryArray(P, query)]

dollar_nor(P, query) == [kind |-> "nor", stack |-> parseQueryArray(P, query)]

dollar_not(P, query) == [kind |-> "not", stack |-> parseQuery(P, query)]

dollar_where(fn) == [kind |-> "where", fn |-> fn]

\* parseNormalQuery(queries, prefix, stack): the loop from key i on
parseNormalQueryFrom(P, queries, prefix, stk, i) ==
    IF i > Len(queries.e) THEN stk
    ELSE
        LET key == queries.e[i].k
            query == queries.e[i].v
            name == DotJoin(prefix, key)
        IN  IF StartsWithDollar(key)
            THEN parseNormalQueryFrom(P, queries, prefix,
                    Append(stk, queryStackOperator(P, StrCat(<<"q">>, key), prefix, query)),
                    i + 1)
            ELSE IF isPlainObject(query)
            THEN parseNormalQueryFrom(P, queries, prefix,
                    parseNormalQueryFrom(P, query, name, stk, 1), i + 1)
            ELSE parseNormalQueryFrom(P, queries, prefix,
                    Append(stk, queryStackNormal(P, name, query)), i + 1)

parseNormalQuery(P, queries, prefix, stk) ==
    parseNormalQueryFrom(P, queries, prefix, stk, 1)

\* parseQuery(queries): the loop from key i on
parseQueryFrom(P, queries, stk, i) ==
    IF i > Len(queries.e) THEN stk
    ELSE
        LET key == queries.e[i].k
            query == queries.e[i].v
            pushed ==
                CASE key = <<"$and">> -> dollar_and(P, query, stk)
                  [] key = <<"$or">> -> Append(stk, dollar_or(P, query))
                  [] key = <<"$nor">> -> Append(stk, dollar_nor(P, query))
                  [] key = <<"$not">> -> Append(stk, dollar_not(P, query))
                  [] key = <<"$where">> -> Append(stk, dollar_where(query))
                  [] OTHER ->
                        IF isPlainObject(query)
                        THEN parseNormalQuery(P, query, key, stk)
                        ELSE Append(stk, queryStackNormal(P, key, query))
        IN  parseQueryFrom(P, queries, pushed, i + 1)

\* path[qkey](value, query, data) for a method the type has
CallQuery(type, qkey, value, query) ==
    CASE qkey \in {"q$exist", "q$exists"} -> q_exist(type, value, query)
      [] qkey = "q$ne" -> q_ne(type, value, query)
      [] qkey = "q$lt" -> q_lt(type, value, query)
      [] qkey \in {"q$lte", "q$max"} -> q_lte(type, value, query)
      [] qkey = "q$gt" -> q_gt(type, value, query)
      [] qkey \in {"q$gte", "q$min"} -> q_gte(type, value, query)
      [] qkey = "q$in" -> q_in(type, value, query)
      [] OTHER -> q_nin(type, value, query)

\* whether path[qkey] is a function
HasQueryMethod(type, qkey) == Len(qkey) = 1 /\ qkey[1] \in QueryMethods

Tri(b) == IF b THEN "true" ELSE "false"

\* the user functions $where is given: by number, `return false`,
\* `return true`, `return this.a === 1`
WhereFn(n, data) ==
    CASE n = 0 -> FALSE
      [] n = 1 -> TRUE
      [] OTHER -> StrictEq(getProp(data, <<"a">>), Lit(Num(1)))

\* a bug: a missing method counts as no match
ApplyOperator_MissingIsFalse(pred, data) ==
    IF getPropRaises(pred.name) THEN "TypeError"
    ELSE IF ~HasQueryMethod(pred.path, pred.qkey) THEN "false"
    ELSE Tri(CallQuery(pred.path, pred.qkey[1], getProp(data, pred.name), pred.query))

\* the closure of queryStackOperator, applied
ApplyOperator(pred, data) ==
    IF getPropRaises(pred.name) \/ ~HasQueryMethod(pred.path, pred.qkey)
    THEN "TypeError"
    ELSE Tri(CallQuery(pred.path, pred.qkey[1], getProp(data, pred.name), pred.query))

\* the closure of queryStackNormal, applied
ApplyNormal(pred, data) ==
    IF getPropRaises(pred.name) THEN "TypeError"
    ELSE Tri(match(pred.path, getProp(data, pred.name), pred.query))

RECURSIVE Apply(_, _)
RECURSIVE execLoop(_, _, _)
RECURSIVE orLoop(_, _, _)
RECURSIVE norLoop(_, _, _)
RECURSIVE notLoop(_, _, _)

\* Each loop gives r, what the closure returns, and n, the number of
\* predicates of its stack it has called.

\* the closure execQuery returns (lines 348-354)
execLoop(stk, data, i) ==
    IF i > Len(stk) THEN [r |-> "true", n |-> Len(stk)]
    ELSE LET x == Apply(stk[i], data)
         IN  IF x = "TypeError" THEN [r |-> x, n |-> i]
             ELSE IF x = "false" THEN [r |-> "false", n |-> i]
             ELSE execLoop(stk, data, i + 1)

\* the closure $or returns (lines 184-190)
orLoop(stk, data, i) ==
    IF i > Len(stk) THEN [r |-> "false", n |-> Len(stk)]
    ELSE LET x == Apply(stk[i], data)
         IN  IF x = "TypeError" THEN [r |-> x, n |-> i]
             ELSE IF x = "true" THEN [r |-> "true", n |-> i]
             ELSE orLoop(stk, data, i + 1)

\* a bug: the loop of $not pasted into $nor
norLoop_FromNot(stk, data, i) ==
    IF i > Len(stk) THEN [r |-> "false", n |-> Len(stk)]
    ELSE LET x == Apply(stk[i], data)
         IN  IF x = "TypeError" THEN [r |-> x, n |-> i]
             ELSE IF x = "false" THEN [r |-> "true", n |-> i]
             ELSE norLoop(stk, data, i + 1)

\* the closure $nor returns (lines 202-208)
norLoop(stk, data, i) ==
    IF i > Len(stk) THEN [r |-> "true", n |-> Len(stk)]
    ELSE LET x == Apply(stk[i], data)
         IN  IF x = "TypeError" THEN [r |-> x, n |-> i]
             ELSE IF x = "true" THEN [r |-> "false", n |-> i]
             ELSE norLoop(stk, data, i + 1)

\* a bug: the negation of line 222 forgotten
notLoop_Unnegated(stk, data, i) ==
    IF i > Len(stk) THEN [r |-> "false", n |-> Len(stk)]
    ELSE LET x == Apply(stk[i], data)
         IN  IF x = "TypeError" THEN [r |-> x, n |-> i]
             ELSE IF x = "true" THEN [r |-> "true", n |-> i]
             ELSE notLoop(stk, data, i + 1)

\* the closure $not returns (lines 220-226)
notLoop(stk, data, i) ==
    IF i > Len(stk) THEN [r |-> "false", n |-> Len(stk)]
    ELSE LET x == Apply(stk[i], data)
         IN  IF x = "TypeError" THEN [r |-> x, n |-> i]
             ELSE IF x = "false" THEN [r |-> "true", n |-> i]
             ELSE notLoop(stk, data, i + 1)

Apply(pred, data) ==
    CASE pred.kind = "normal" -> ApplyNormal(pred, data)
      [] pred.kind = "operator" -> ApplyOperator(pred, data)
      [] pred.kind = "exec" -> execLoop(pred.stack, data, 1).r
      [] pred.kind = "or" -> orLoop(pred.stack, data, 1).r
      [] pred.kind = "nor" -> norLoop(pred.stack, data, 1).r
      [] pred.kind = "not" -> notLoop(pred.stack, data, 1).r
      [] OTHER -> Tri(WhereFn(pred.fn.n, data))

-----------------------------------------------------------------------------
(* The update operators of SchemaType (schematype.ts, lines 259-284).      *)
(* A mutation gives the document it leaves and the error it raised.        *)

Done(data) == [d |-> data, err |-> "none"]
Raised(data) == [d |-> data, err |-> "TypeError"]

u_set(type, value, update) == Lit(update)

u_unset(type, value, update) == IF Truthy(update) THEN UndefT ELSE value

\* a bug: the test of line 282 forgotten
u_rename_Unguarded(type, value, update, data) ==
    IF update.t # "str" \/ setPropRaises(data, update.s)
    THEN Raised(data)
    ELSE Done(setProp(data, update.s, value))

\* u$rename(value, update, data): the document it leaves; it returns undefined
u_rename(type, value, update, data) ==
    IF ~IsUndefined(value)
    THEN IF update.t # "str" \/ setPropRaises(data, update.s)
         THEN Raised(data)
         ELSE Done(setProp(data, update.s, value))
    ELSE Done(data)

\* Number.u$inc(value, update): value + update
u_inc(type, value, update) ==
    IF IsNumber(value) /\ update.t = "num"
    THEN Lit(Num(ToNumber(value) + update.n))
    ELSE Lit(NaN)

\* whether path[ukey] is a function
HasUpdateMethod(type, ukey) ==
    /\ Len(ukey) = 1
    /\ \/ ukey[1] \in UpdateMethods
       \/ type.tag = "Number" /\ ukey[1] = "u$inc"

-----------------------------------------------------------------------------
(* UpdateParser (src/unnamed/part_000, lines 64-129).                      *)

updateStackNormal(key, update) ==
    [kind |-> "normal", key |-> key, update |-> update]

\* path_ || new SchemaType(key)
updateStackOperator(path_, ukey, key, update) ==
    [kind |-> "operator",
     path |-> IF Len(path_) > 0 THEN path_[1]
              ELSE IF key = UndefinedKey THEN SchemaType(EmptyStr)
              ELSE SchemaType(key),
     ukey |-> ukey, key |-> key, update |-> update]

\* paths[name], <<>> for undefined
Lookup(P, name) == IF name \in DOMAIN P THEN <<P[name]>> ELSE <<>>

\* update[field], Undefined for a key the mapping has not
Field(update, field) ==
    IF \E j \in 1..Len(update.e) : update.e[j].k = field
    THEN update.e[CHOOSE j \in 1..Len(update.e) : update.e[j].k = field].v
    ELSE Undefined

\* Object.keys(update)[i], counting from 1
KeyAt(update, i) == IF i <= Len(update.e) THEN update.e[i].k ELSE UndefinedKey

\* the inner loop of lines 115-118, run for the outer index i
InlineOperators(P, ukey, update, i) ==
    [j \in 1..Len(update.e) |->
        LET field == KeyAt(update, i)
        IN  updateStackOperator(Lookup(P, field), ukey, field, Field(update, field))]

RECURSIVE parseUpdateFrom(_, _, _, _, _)

\* parseUpdate(updates, prefix, stack): the loop from key i on
parseUpdateFrom(P, updates, prefix, stk, i) ==
    IF i > Len(updates.e) THEN stk
    ELSE
        LET key == updates.e[i].k
            update == updates.e[i].v
            name == StrCat(prefix, key)
            hasPrefix == ~IsEmptyStr(prefix)
            prefixNoDot == DropLastChar(prefix)
            ukey == StrCat(<<"u">>, key)
            pushed ==
                IF StartsWithDollar(key)
                THEN IF hasPrefix
                     THEN Append(stk, updateStackOperator(Lookup(P, prefixNoDot),
                                                          ukey, prefixNoDot, update))
                     ELSE stk \o InlineOperators(P, ukey, update, i)
                ELSE IF isPlainObject(update)
                THEN parseUpdateFrom(P, update, WithDot(name), stk, 1)
                ELSE Append(stk, updateStackNormal(name, update))
        IN  parseUpdateFrom(P, updates, prefix, pushed, i + 1)

parseUpdate(P, updates) == parseUpdateFrom(P, updates, EmptyStr, <<>>, 1)

\* path[ukey](value, update, data) for a method the type has: the document
\* it leaves and the value it returns
CallUpdate(type, ukey, value, update, data) ==
    CASE ukey = "u$set" -> [m |-> Done(data), result |-> u_set(type, value, update)]
      [] ukey = "u$unset" -> [m |-> Done(data), result |-> u_unset(type, value, update)]
      [] ukey = "u$rename" ->
            [m |-> u_rename(type, value, update, data), result |-> UndefT]
      [] OTHER -> [m |-> Done(data), result |-> u_inc(type, value, update)]

\* the closure of updateStackOperator, applied (lines 72-75)
ApplyUpdateOperator(action, data) ==
    IF getPropRaises(action.key) \/ ~HasUpdateMethod(action.path, action.ukey)
    THEN Raised(data)
    ELSE
        LET c == CallUpdate(action.path, action.ukey[1],
                            getProp(data, action.key), action.update, data)
        IN  IF c.m.err # "none" THEN c.m
            ELSE IF setPropRaises(c.m.d, action.key) THEN Raised(c.m.d)
            ELSE Done(setProp(c.m.d, action.key, c.result))

\* the closure of updateStackNormal, applied (line 66)
ApplyUpdateNormal(action, data) ==
    IF setPropRaises(data, action.key) THEN Raised(data)
    ELSE Done(setProp(data, action.key, Lit(action.update)))

ApplyAction(action, data) ==
    IF action.kind = "operator" THEN ApplyUpdateOperator(action, data)
    ELSE ApplyUpdateNormal(action, data)

RECURSIVE ApplyActions(_, _, _)

\* the mutators of a stack called in order on data; a raise ends the run
ApplyActions(stk, data, i) ==
    IF i > Len(stk) THEN Done(data)
    ELSE LET m == ApplyAction(stk[i], data)
         IN  IF m.err # "none" THEN m ELSE ApplyActions(stk, m.d, i + 1)

-----------------------------------------------------------------------------
(* Sorting (src/unnamed/part_000, lines 39-62 and 700-729).  A comparator  *)
(* returns Num(n), or Undefined when it returns no number.                 *)

\* sortStack(path_, key, sort)
sortStack(path_, key, sort) ==
    [path |-> IF Len(path_) > 0 THEN path_[1] ELSE SchemaType(key),
     key |-> key,
     descending |-> sort = Str(<<"desc">>) \/ sort = Num(-1)]

\* the closure of sortStack, applied (lines 58-61)
ApplyComparator(c, a, b) ==
    LET result == compare(c.path, getProp(a, c.key), getProp(b, c.key))
    IN  IF c.descending /\ result # 0 THEN result * (-1) ELSE result

RECURSIVE execSortLoop(_, _, _, _, _)

\* the loop of lines 45-50: result is what the last comparator returned
execSortLoop(stk, a, b, i, result) ==
    IF i > Len(stk) THEN result
    ELSE LET r == ApplyComparator(stk[i], a, b)
         IN  IF r # 0 THEN Num(r) ELSE execSortLoop(stk, a, b, i + 1, Num(r))

\* the closure execSortStack returns, applied: `let result` starts undefined
execSortStack(stk, a, b) == execSortLoop(stk, a, b, 1, Undefined)

RECURSIVE parseSortFrom(_, _, _, _, _)

\* _parseSort(sorts, prefix, stack): the loop from key i on
parseSortFrom(P, sorts, prefix, stk, i) ==
    IF i > Len(sorts.e) THEN stk
    ELSE
        LET key == sorts.e[i].k
            sort == sorts.e[i].v
            name == StrCat(prefix, key)
            pushed ==
                IF sort.t = "map"
                THEN parseSortFrom(P, sort, WithDot(name), stk, 1)
                ELSE Append(stk, sortStack(Lookup(P, name), name, sort))
        IN  parseSortFrom(P, sorts, prefix, pushed, i + 1)

parseSort(P, sorts) == parseSortFrom(P, sorts, EmptyStr, <<>>, 1)

-----------------------------------------------------------------------------
(* Schema._parsePopulate (src/unnamed/part_000, lines 738-781).            *)
(* A populate expression is a string (given by its space-separated words,  *)
(* the result of split(' ')),                                              *)
(* an array of strings and option mappings, or one option mapping.  An     *)
(* option mapping is a record of its `path` and `model`.                   *)

PString(words) == [form |-> "string", e |-> words]
PArray(items) == [form |-> "array", e |-> items]
PObject(item) == [form |-> "object", e |-> <<item>>]
Item(p, m) == [form |-> "item", path |-> p, model |-> m]
Word(s) == [form |-> "word", path |-> Str(s), model |-> Undefined]

\* lines 742-756: arr
Normalize(expr) ==
    CASE expr.form = "string" ->
            [i \in 1..Len(expr.e) |-> Item(expr.e[i], Undefined)]
      [] expr.form = "array" ->
            [i \in 1..Len(expr.e) |->
                IF expr.e[i].form = "word"
                THEN Item(expr.e[i].path, Undefined)
                ELSE expr.e[i]]
      [] OTHER -> expr.e

Populated(arr, e) == [arr |-> arr, err |-> e]

RECURSIVE populateFrom(_, _, _)

\* lines 758-778: the loop from item i on
populateFrom(P, arr, i) ==
    IF i > Len(arr) THEN Populated(arr, "none")
    ELSE
        LET item == arr[i]
            key == item.path
        IN  IF ~Truthy(key) THEN Populated(arr, "PopulationError: path is required")
            ELSE IF Truthy(item.model) THEN populateFrom(P, arr, i + 1)
            ELSE IF key.s \notin DOMAIN P THEN Populated(arr, "TypeError")
            ELSE
                LET type == P[key.s]
                    ref == IF Len(type.child) > 0 THEN type.child[1].ref ELSE type.ref
                IN  IF IsEmptyStr(ref)
                    THEN Populated(arr, "PopulationError: model is required")
                    ELSE populateFrom(P, [arr EXCEPT ![i].model = Str(ref)], i + 1)

parsePopulate(P, expr) == populateFrom(P, Normalize(expr), 1)

-----------------------------------------------------------------------------
(* The stacks applied to a document (part_000, lines 486-528, 611-666).    *)
(* Of the types, only the base SchemaType is in the sources; Object        *)
(* inherits its validate and value, and Virtual's value yields undefined.  *)

\* SchemaType.value(value, data)
value(type, v) == v

\* Virtual.value(value, data)
virtual_value(type, v) == UndefT

\* type.value(value, data), by the class of type
CallValue(type, v) ==
    IF type.tag = "Virtual" THEN virtual_value(type, v) ELSE value(type, v)

Invalid(data) == [d |-> data, err |-> "ValidationError"]

\* a bug: an undefined result leaves the field as it is
ApplyExport_NoDelete(closure, data) ==
    LET result == CallValue(closure.type, getProp(data, closure.name))
    IN  IF IsUndefined(result) THEN Done(data)
        ELSE IF setPropRaises(data, closure.name) THEN Raised(data)
        ELSE Done(setProp(data, closure.name, result))

\* the closure of stacks.export, applied
ApplyExport(closure, data) ==
    LET result == CallValue(closure.type, getProp(data, closure.name))
    IN  IF ~IsUndefined(result)
        THEN IF setPropRaises(data, closure.name) THEN Raised(data)
             ELSE Done(setProp(data, closure.name, result))
        ELSE Done(delProp(data, closure.name))

\* the closure of stacks.setter, applied
ApplySetter(closure, data) ==
    LET v == getProp(data, closure.name)
    IN  IF validateRaises(closure.type, v) THEN Invalid(data)
        ELSE LET result == validate(closure.type, v)
             IN  IF ~IsUndefined(result)
                 THEN IF setPropRaises(data, closure.name) THEN Raised(data)
                      ELSE Done(setProp(data, closure.name, result))
                 ELSE Done(delProp(data, closure.name))

\* a bug: the loop goes on after a closure has raised
RECURSIVE applySettersFrom_Continuing(_, _, _)
applySettersFrom_Continuing(stk, data, i) ==
    IF i > Len(stk) THEN Done(data)
    ELSE LET m == ApplySetter(stk[i], data)
             rest == applySettersFrom_Continuing(stk, m.d, i + 1)
         IN  IF m.err # "none" THEN [d |-> rest.d, err |-> m.err] ELSE rest

\* Schema._applySetters(data): the loop from closure i on
RECURSIVE applySettersFrom(_, _, _)
applySettersFrom(stk, data, i) ==
    IF i > Len(stk) THEN Done(data)
    ELSE LET m == ApplySetter(stk[i], data)
         IN  IF m.err # "none" THEN m ELSE applySettersFrom(stk, m.d, i + 1)

applySetters(S, data) == applySettersFrom(S.setter, data, 1)

\* Schema._exportDatabase(data): the loop from closure i on
RECURSIVE exportDatabaseFrom(_, _, _)
exportDatabaseFrom(stk, data, i) ==
    IF i > Len(stk) THEN Done(data)
    ELSE LET m == ApplyExport(stk[i], data)
         IN  IF m.err # "none" THEN m ELSE exportDatabaseFrom(stk, m.d, i + 1)

exportDatabase(S, data) == exportDatabaseFrom(S.export, data, 1)

\* a bug: the synthesized base type is kept in paths
afterLookup_Caching(P, name) ==
    IF name \in DOMAIN P THEN P ELSE (name :> SchemaType(name)) @@ P

\* this.paths after `this.paths[name] || new SchemaType(name)`: the type
\* goes to a local variable of the closure
afterLookup(P, name) == P

RECURSIVE afterLookups(_, _)
afterLookups(P, names) ==
    IF names = <<>> THEN P
    ELSE afterLookups(afterLookup(P, Head(names)), Tail(names))

\* the paths the closures of a compiled stack were made for, in the order
\* they were made
RECURSIVE LookupsOf(_)
LookupsOf(stk) ==
    IF stk = <<>> THEN <<>>
    ELSE LET closure == Head(stk)
             own ==
                 IF "stack" \in DOMAIN closure THEN LookupsOf(closure.stack)
                 ELSE IF "name" \in DOMAIN closure THEN <<closure.name>>
                 ELSE IF "path" \in DOMAIN closure THEN <<closure.key>>
                 ELSE <<>>
         IN  own \o LookupsOf(Tail(stk))

\* one registration call on the schema
Register(S, call) ==
    CASE call.op = "path" -> path(S, call.name, call.arg)
      [] call.op = "virtual" -> virtual(S, call.name)
      [] OTHER -> add(S, call.arg, EmptyStr)

\* the registration calls of a sequence, in order
RECURSIVE Registered(_, _)
Registered(S, sequence) ==
    IF sequence = <<>> THEN S
    ELSE Registered(Register(S, Head(sequence)), Tail(sequence))

-----------------------------------------------------------------------------
(* The compilers applied to bounded inputs: specification SpecCompile.     *)
(* A run draws a schema, one expression and the documents, compiles the    *)
(* expression and applies what the compiler returned.                      *)

Nums == 1..MaxNum

\* documents over the paths a, a.x and b
ADocs ==
    {EmptyDoc, setProp(EmptyDoc, A, UndefT), setProp(EmptyDoc, A, EmptyDoc)}
    \cup {setProp(EmptyDoc, A, Lit(Num(n))) : n \in Nums}
    \cup {setProp(EmptyDoc, AX, Lit(Num(n))) : n \in Nums}

Docs == ADocs \cup {setProp(d, B, Lit(Num(n))) : d \in ADocs, n \in Nums}

One(k, v) == Map(<<Entry(k, v)>>)

\* field queries, as entries of a query
CoreEntries ==
    {Entry(A, Num(1)),
     Entry(B, Num(2)),
     Entry(A, One(<<"$gt">>, Num(1))),
     Entry(B, One(<<"$foo">>, Num(1))),
     Entry(A, One(X, Num(1)))}

FieldEntries ==
    CoreEntries \cup
    {Entry(AX, Num(1)),
     Entry(AX, Num(2)),
     Entry(A, One(X, Num(2))),
     Entry(A, Map(<<>>)),
     Entry(A, One(<<"$lt">>, Num(2))),
     Entry(A, One(<<"$exists">>, Bool(TRUE))),
     Entry(B, One(<<"$exist">>, Bool(FALSE))),
     Entry(A, One(<<"$in">>, List(<<Num(1), Num(2)>>))),
     Entry(B, One(<<"$nin">>, List(<<Num(1)>>))),
     Entry(A, One(<<"$ne">>, Num(1))),
     Entry(A, One(<<"$foo">>, Num(1))),
     Entry(A, Map(<<Entry(<<"$gte">>, Num(1)), Entry(<<"$max">>, Num(1))>>)),
     Entry(A, One(X, One(<<"$gte">>, Num(2)))),
     Entry(AX, One(<<"$gte">>, Num(2))),
     Entry(A, One(X, One(<<"$foo">>, Num(2)))),
     Entry(AX, One(<<"$foo">>, Num(2))),
     Entry(A, One(X, One(<<"$min">>, Num(1)))),
     Entry(B, One(A, One(X, Num(1)))),
     Entry(A, Map(<<Entry(X, Num(1)), Entry(<<"$exists">>, Bool(TRUE))>>))}

CoreQueries == {Map(<<e>>) : e \in CoreEntries}

FlatQueries ==
    {Map(<<>>)}
    \cup {Map(<<e>>) : e \in FieldEntries}
    \cup {Map(<<e, f>>) : e \in CoreEntries, f \in CoreEntries}

\* the lists $and, $or and $nor are given
QueryLists ==
    {List(<<>>)}
    \cup {List(<<q>>) : q \in CoreQueries \cup {Map(<<>>)}}
    \cup {List(<<q, r>>) : q \in CoreQueries, r \in CoreQueries}

Clauses ==
    {Entry(<<c>>, l) : c \in {"$and", "$or", "$nor"}, l \in QueryLists}
    \cup {Entry(<<"$not">>, q) : q \in FlatQueries}
    \cup {Entry(<<"$where">>, Fn(n)) : n \in 0..2}

Queries ==
    FlatQueries
    \cup {Map(<<c>>) : c \in Clauses}
    \cup {Map(<<Entry(A, Num(1)), c>>) : c \in Clauses}


\* update documents: inline operators, first-class operators, assignments
SetUpdates == {One(<<"$set">>, One(f, Num(v))) : f \in Names, v \in Nums}

UnsetUpdates == {One(<<"$unset">>, One(f, Bool(TRUE))) : f \in Names}

RenameUpdates == {One(<<"$rename">>, One(f, Str(g))) : f \in Names, g \in Names}

Updates ==
    SetUpdates \cup UnsetUpdates \cup RenameUpdates \cup
    {Map(<<>>),
     One(<<"$set">>, Map(<<Entry(A, Num(1)), Entry(B, Num(2))>>)),
     Map(<<Entry(<<"$set">>, One(A, Num(2))), Entry(<<"$inc">>, One(B, Num(1)))>>),
     Map(<<Entry(<<"$inc">>, One(B, Num(1))), Entry(<<"$set">>, One(A, Num(2)))>>),
     Map(<<Entry(B, Num(1)), Entry(<<"$set">>, Map(<<Entry(A, Num(1)), Entry(B, Num(2))>>))>>),
     One(<<"$inc">>, One(B, Num(1))),
     One(<<"$unset">>, One(A, Bool(FALSE))),
     One(<<"$foo">>, One(A, Num(1))),
     One(<<"$set">>, Map(<<>>)),
     One(A, One(<<"$set">>, Num(1))),
     One(A, One(<<"$foo">>, Num(1))),
     One(B, One(<<"$inc">>, Num(1))),
     One(A, One(X, One(<<"$unset">>, Bool(TRUE)))),
     One(A, Num(1)),
     One(A, One(X, Num(2))),
     Map(<<Entry(B, Num(1)), Entry(A, Map(<<Entry(X, Num(1))>>))>>)}

\* sort documents
Sorts ==
    {Map(<<>>),
     One(A, Num(1)),
     One(A, Num(-1)),
     One(A, Str(<<"desc">>)),
     One(B, Str(<<"asc">>)),
     One(AX, Num(-1)),
     One(A, One(X, Num(1))),
     Map(<<Entry(A, Num(1)), Entry(B, Num(-1))>>),
     Map(<<Entry(A, Num(-1)), Entry(B, Num(1))>>),
     Map(<<Entry(B, Str(<<"desc">>)), Entry(A, One(X, Num(1)))>>),
     Map(<<Entry(A, One(X, Num(-1))), Entry(B, Num(1))>>)}

\* the documents that are sorted
SortDocs == {d \in Docs : A \notin DOMAIN d \/ d[A].t = "num" \/ AX \in DOMAIN d}

\* populate expressions
Populates ==
    {PString(<<Str(A)>>),
     PString(<<Str(A), Str(B)>>),
     PString(<<Str(B), Str(A)>>),
     PString(<<Str(EmptyStr)>>),
     PString(<<Str(A), Str(EmptyStr)>>),
     PString(<<Str(AX)>>),
     PArray(<<>>),
     PArray(<<Word(A), Word(B)>>),
     PArray(<<Word(A), Item(Str(B), Str(<<"Post">>))>>),
     PArray(<<Item(Str(AX), Str(<<"Post">>)), Item(Str(B), Undefined)>>),
     PArray(<<Item(Undefined, Str(<<"Post">>))>>),
     PArray(<<Item(Str(B), Undefined), Item(Undefined, Undefined)>>),
     PObject(Item(Str(A), Undefined)),
     PObject(Item(Str(AX), Undefined)),
     PObject(Item(Str(A), Str(<<"Post">>))),
     PObject(Item(Undefined, Undefined)),
     PObject(Item(Str(EmptyStr), Str(<<"Post">>)))}

Base(name) == DInstance("SchemaType", name, FALSE)
Required(name) == DInstance("SchemaType", name, TRUE)

User == <<"User">>

\* the schemas the compilers run against, by the kind of run
Schemas(k) ==
    CASE k \in {"query", "sort", "path"} ->
            {<<>>, <<Entry(A, Base(A)), Entry(AX, Base(AX))>>}
      [] k = "update" ->
            {<<>>, <<Entry(A, Base(A)), Entry(B, DFunction("Number"))>>}
      [] k = "populate" ->
            {<<>>,
             <<Entry(A, DTyped("Id", FALSE, User)),
               Entry(B, DArray(<<DTyped("Id", FALSE, <<"Comment">>)>>))>>,
             <<Entry(A, DFunction("String")), Entry(B, DArray(<<>>))>>,
             <<Entry(A, DArray(<<DFunction("String")>>)),
               Entry(B, DTyped("Id", TRUE, User))>>}
      [] k = "setters" ->
            {<<>>,
             <<Entry(A, Base(A)), Entry(B, Required(B))>>,
             <<Entry(A, Required(A)), Entry(B, Base(B))>>,
             <<Entry(A, DPlain(<<Entry(X, Required(AX))>>)), Entry(B, Base(B))>>,
             <<Entry(B, Base(B)), Entry(A, DPlain(<<Entry(X, Base(AX))>>))>>}
      [] OTHER ->
            {<<>>,
             <<Entry(A, Base(A)), Entry(B, Base(B))>>,
             <<Entry(A, DPlain(<<Entry(X, Base(AX))>>))>>}

\* the registration calls that follow the constructor, by the kind of run
Setups(k) ==
    CASE k = "setters" ->
            {<<>>,
             <<Call("path", B, Required(B))>>,
             <<Call("path", A, Base(A))>>,
             <<Call("path", AX, Required(AX)), Call("path", B, Base(B))>>}
      [] OTHER ->
            {<<>>,
             <<Call("virtual", A, <<>>)>>,
             <<Call("virtual", AX, <<>>)>>,
             <<Call("virtual", B, <<>>)>>,
             <<Call("virtual", AX, <<>>), Call("virtual", B, <<>>)>>,
             <<Call("virtual", A, <<>>), Call("path", A, Base(A))>>,
             <<Call("virtual", AX, <<>>), Call("path", A, Base(A))>>}

Inputs(k) ==
    CASE k = "query" -> Queries
      [] k = "update" -> Updates
      [] k = "sort" -> Sorts
      [] k = "populate" -> Populates
      [] k = "path" -> {Str(name) : name \in Names}
      [] OTHER -> Setups(k)

InitCompile ==
    /\ kind \in {"query", "update", "sort", "populate", "setters", "export", "path"}
    /\ input \in Inputs(kind)
    /\ \E schema \in Schemas(kind) :
          LET S0 == add(NoState, schema, EmptyStr)
              S == IF kind \in {"setters", "export"} THEN Registered(S0, input) ELSE S0
          IN  paths = S.paths /\ stacks = S.stacks
    /\ hooks = EmptyHooks
    /\ methods = <<>>
    /\ statics = <<>>
    /\ last = NoCall
    /\ err = "none"
    /\ calls = 0
    /\ doc \in CASE kind \in {"query", "update", "setters", "export"} -> Docs
                 [] kind = "sort" -> SortDocs
                 [] OTHER -> {EmptyDoc}
    /\ docB \in IF kind = "sort" THEN SortDocs ELSE {EmptyDoc}
    /\ stack = <<>>
    /\ pc = "start"
    /\ res = Undefined
    /\ out = doc
    /\ out2 = doc

\* predicate = schema._execQuery(query)
ExecQuery ==
    /\ kind = "query" /\ pc = "start"
    /\ stack' = execQuery(paths, input).stack
    /\ paths' = afterLookups(paths, LookupsOf(stack'))
    /\ pc' = "compiled"
    /\ UNCHANGED <<registryVars, last, stacks, err, calls, kind, input, doc, docB, res, out, out2>>

\* predicate(doc)
CallPredicate ==
    /\ kind = "query" /\ pc = "compiled"
    /\ res' = execLoop(stack, doc, 1)
    /\ err' = IF res'.r = "TypeError" THEN "TypeError" ELSE "none"
    /\ pc' = "applied"
    /\ UNCHANGED <<registryVars, last, paths, stacks, calls, kind, input, doc, docB, stack, out, out2>>

\* mutators = schema._parseUpdate(update)
ParseUpdate ==
    /\ kind = "update" /\ pc = "start"
    /\ stack' = parseUpdate(paths, input)
    /\ paths' = afterLookups(paths, LookupsOf(stack'))
    /\ pc' = "compiled"
    /\ UNCHANGED <<registryVars, last, stacks, err, calls, kind, input, doc, docB, res, out, out2>>

\* for (mutator of mutators) mutator(doc)
ApplyUpdate ==
    /\ kind = "update" /\ pc = "compiled"
    /\ LET m == ApplyActions(stack, doc, 1)
       IN  out' = m.d /\ out2' = m.d /\ err' = m.err /\ res' = Str(<<m.err>>)
    /\ pc' = "applied"
    /\ UNCHANGED <<registryVars, last, paths, stacks, calls, kind, input, doc, docB, stack>>

\* the same mutators applied to the same document once more
ApplyUpdateAgain ==
    /\ kind = "update" /\ pc = "applied"
    /\ LET m == ApplyActions(stack, out, 1)
       IN  out2' = m.d /\ err' = m.err
    /\ pc' = "again"
    /\ UNCHANGED <<registryVars, last, paths, stacks, calls, kind, input, doc, docB, stack, res, out>>

\* comparator = schema._execSort(sorts)
ExecSort ==
    /\ kind = "sort" /\ pc = "start"
    /\ stack' = parseSort(paths, input)
    /\ paths' = afterLookups(paths, LookupsOf(stack'))
    /\ pc' = "compiled"
    /\ UNCHANGED <<registryVars, last, stacks, err, calls, kind, input, doc, docB, res, out, out2>>

\* comparator(doc, docB)
CallComparator ==
    /\ kind = "sort" /\ pc = "compiled"
    /\ res' = execSortStack(stack, doc, docB)
    /\ pc' = "applied"
    /\ UNCHANGED <<registryVars, last, paths, stacks, err, calls, kind, input, doc, docB, stack, out, out2>>

\* schema._parsePopulate(expr)
ParsePopulate ==
    /\ kind = "populate" /\ pc = "start"
    /\ LET r == parsePopulate(paths, input)
       IN  stack' = r.arr /\ err' = r.err
    /\ pc' = "applied"
    /\ UNCHANGED <<registryVars, last, paths, stacks, calls, kind, input, doc, docB, res, out, out2>>

\* schema._applySetters(doc)
ApplySetters ==
    /\ kind = "setters" /\ pc = "start"
    /\ LET m == applySetters(stacks, doc)
       IN  out' = m.d /\ out2' = m.d /\ err' = m.err
    /\ pc' = "applied"
    /\ UNCHANGED <<registryVars, last, paths, stacks, calls, kind, input, doc, docB, stack, res>>

\* schema._exportDatabase(doc)
ExportDatabase ==
    /\ kind = "export" /\ pc = "start"
    /\ LET m == exportDatabase(stacks, doc)
       IN  out' = m.d /\ out2' = m.d /\ err' = m.err
    /\ pc' = "applied"
    /\ UNCHANGED <<registryVars, last, paths, stacks, calls, kind, input, doc, docB, stack, res>>

\* schema.path(name)
GetPath ==
    /\ kind = "path" /\ pc = "start"
    /\ LET S == path(State(paths, stacks, "none"), input.s, DNull)
       IN  paths' = S.paths /\ stacks' = S.stacks /\ err' = S.err
    /\ stack' = Lookup(paths, input.s)
    /\ pc' = "applied"
    /\ UNCHANGED <<registryVars, last, calls, kind, input, doc, docB, res, out, out2>>

NextCompile ==
    \/ ExecQuery \/ CallPredicate
    \/ ParseUpdate \/ ApplyUpdate \/ ApplyUpdateAgain
    \/ ExecSort \/ CallComparator
    \/ ParsePopulate
    \/ ApplySetters \/ ExportDatabase
    \/ GetPath

SpecCompile == InitCompile /\ [][NextCompile]_vars

-----------------------------------------------------------------------------
(* C1: after any sequence of registration calls the four stacks have the   *)
(* same length, that length is the number of keys of paths, and for every  *)
(* path P of paths exactly one closure of each stack refers to P.          *)

Referring(k, P) == {i \in 1..Len(stacks[k]) : stacks[k][i].name = P}

C1_StacksMatchPaths ==
    \A k \in StackNames :
        /\ Len(stacks[k]) = Cardinality(DOMAIN paths)
        /\ \A P \in DOMAIN paths : Cardinality(Referring(k, P)) = 1

-----------------------------------------------------------------------------
(* C2: for an update document whose top-level keys are operators, each     *)
(* mapped to {field: value, ...}, _parseUpdate produces exactly one action *)
(* per (field, value) entry of each operator, the action for (f, v)        *)
(* calling u$op on the type of f (or a synthesized base type) with v and   *)
(* writing the result to f.                                                *)

OnlyInlineOperators(u) ==
    /\ Len(u.e) > 0
    /\ \A i \in 1..Len(u.e) : StartsWithDollar(u.e[i].k) /\ u.e[i].v.t = "map"

\* the actions the claim describes for operator i of u
ClaimedActionsOf(P, u, i) ==
    [j \in 1..Len(u.e[i].v.e) |->
        updateStackOperator(Lookup(P, u.e[i].v.e[j].k), StrCat(<<"u">>, u.e[i].k),
                            u.e[i].v.e[j].k, u.e[i].v.e[j].v)]

RECURSIVE ClaimedActions(_, _, _)
ClaimedActions(P, u, i) ==
    IF i > Len(u.e) THEN <<>>
    ELSE ClaimedActionsOf(P, u, i) \o ClaimedActions(P, u, i + 1)

C2_OneActionPerEntry ==
    (kind = "update" /\ pc # "start" /\ OnlyInlineOperators(input))
        => stack = ClaimedActions(paths, input, 1)

-----------------------------------------------------------------------------
(* C3: _execQuery(q)(d) is true iff every top-level predicate of q passes, *)
(* the predicates being called in order up to the first that does not      *)
(* pass; a $or clause that returns passes iff some sub-query passes and    *)
(* stops at the first match, a $nor clause that returns passes iff no      *)
(* sub-query passes and stops at the first match, a $not clause that       *)
(* returns passes iff some predicate of its sub-query fails and stops at   *)
(* the first failure.                                                      *)

\* the first index of stk whose predicate does not return v, Len(stk) if none
FirstNot(stk, data, v) ==
    IF \E i \in 1..Len(stk) : Apply(stk[i], data) # v
    THEN CHOOSE i \in 1..Len(stk) :
            /\ Apply(stk[i], data) # v
            /\ \A j \in 1..(i - 1) : Apply(stk[j], data) = v
    ELSE Len(stk)

Some(stk, data, v) == \E i \in 1..Len(stk) : Apply(stk[i], data) = v

ClauseAsClaimed(pred, data) ==
    CASE pred.kind = "or" ->
            /\ orLoop(pred.stack, data, 1).n = FirstNot(pred.stack, data, "false")
            /\ Apply(pred, data) # "TypeError"
                  => (Apply(pred, data) = "true" <=> Some(pred.stack, data, "true"))
      [] pred.kind = "nor" ->
            /\ norLoop(pred.stack, data, 1).n = FirstNot(pred.stack, data, "false")
            /\ Apply(pred, data) # "TypeError"
                  => (Apply(pred, data) = "true" <=> ~Some(pred.stack, data, "true"))
      [] pred.kind = "not" ->
            /\ notLoop(pred.stack, data, 1).n = FirstNot(pred.stack, data, "true")
            /\ Apply(pred, data) # "TypeError"
                  => (Apply(pred, data) = "true" <=> Some(pred.stack, data, "false"))
      [] OTHER -> TRUE

-----------------------------------------------------------------------------
(* C4: _execQuery({$nor: L})(d) is the negation of _execQuery({$or: L})(d) *)
(* and _execQuery({$not: q})(d) is the negation of _execQuery(q)(d), for   *)
(* every L and q, the empty ones included; where one raises, so does the   *)
(* other.                                                                  *)

Negation(r) ==
    CASE r = "true" -> "false"
      [] r = "false" -> "true"
      [] OTHER -> r

\* _execQuery(q)(d)
Run(P, q, d) == execLoop(execQuery(P, q).stack, d, 1).r

IsClause(q, c) == Len(q.e) = 1 /\ q.e[1].k = <<c>>

C4_Duality ==
    (kind = "query" /\ pc = "applied") =>
        /\ IsClause(input, "$nor") =>
              res.r = Negation(Run(paths, One(<<"$or">>, input.e[1].v), doc))
        /\ IsClause(input, "$not") =>
              res.r = Negation(Run(paths, input.e[1].v, doc))

\* {$nor: [p, q]} on a document on which p fails and q passes
C4_Witness ==
    /\ kind = "query" /\ pc = "applied"
    /\ IsClause(input, "$nor")
    /\ Len(input.e[1].v.e) = 2
    /\ Run(paths, input.e[1].v.e[1], doc) = "false"
    /\ Run(paths, input.e[1].v.e[2], doc) = "true"
    /\ res.r = "false"

-----------------------------------------------------------------------------
(* C5: a nested field query {K: {k1: {... {kn: v}}}} compiles to the       *)
(* predicate that reads the document at the path K.k1.....kn, the keys     *)
(* joined by '.' with no leading separator, and a $op key under those keys *)
(* to the call of q$op on the type at that path; each compiles to the same *)
(* predicates, and accepts the same documents, as the query with the       *)
(* dotted key: {K: {k: v}} as {'K.k': v}, {K: {k: {$op: x}}} as            *)
(* {'K.k': {$op: x}}.                                                      *)

\* the value under the chain of single field keys k1, ..., kn below v
RECURSIVE ChainLeaf(_)
ChainLeaf(v) ==
    IF v.t = "map" /\ Len(v.e) = 1 /\ ~StartsWithDollar(v.e[1].k)
    THEN ChainLeaf(v.e[1].v)
    ELSE v

\* the keys k1, ..., kn, joined
RECURSIVE ChainPath(_)
ChainPath(v) ==
    IF v.t = "map" /\ Len(v.e) = 1 /\ ~StartsWithDollar(v.e[1].k)
    THEN v.e[1].k \o ChainPath(v.e[1].v)
    ELSE <<>>

\* {K: {k1: {... {kn: v}}}} with n >= 1, v no mapping or one {$op: x}
IsNestedField(q) ==
    /\ Len(q.e) = 1
    /\ ~StartsWithDollar(q.e[1].k)
    /\ ChainPath(q.e[1].v) # <<>>
    /\ LET v == ChainLeaf(q.e[1].v)
       IN  v.t = "map" => Len(v.e) = 1 /\ StartsWithDollar(v.e[1].k)

\* the path K.k1.....kn
JoinedPath(q) == q.e[1].k \o ChainPath(q.e[1].v)

\* {'K.k1.....kn': v}
Dotted(q) == One(JoinedPath(q), ChainLeaf(q.e[1].v))

ClaimedPredicate(P, q) ==
    LET v == ChainLeaf(q.e[1].v)
        name == JoinedPath(q)
        type == IF name \in DOMAIN P THEN P[name] ELSE SchemaType(name)
    IN  IF v.t = "map"
        THEN [kind |-> "operator", path |-> type,
              qkey |-> StrCat(<<"q">>, v.e[1].k), name |-> name, query |-> v.e[1].v]
        ELSE [kind |-> "normal", path |-> type, name |-> name, query |-> v]

C5_NestedFieldPath ==
    (kind = "query" /\ pc # "start" /\ IsNestedField(input)) =>
        /\ stack = <<ClaimedPredicate(paths, input)>>
        /\ Head(stack[1].name) # ""
        /\ stack = parseQuery(paths, Dotted(input))
        /\ pc = "applied" => res.r = Run(paths, Dotted(input), doc)

\* {a: {x: {$gte: 2}}} accepts a document that holds 2 at a.x
C5_Witness ==
    /\ kind = "query" /\ pc = "applied"
    /\ IsNestedField(input)
    /\ ChainLeaf(input.e[1].v).t = "map"
    /\ stack[1].name = AX /\ stack[1].qkey = <<"q$gte">>
    /\ AX \in DOMAIN paths
    /\ res.r = "true"

-----------------------------------------------------------------------------
(* C6.  The claim: an operator the type of the path does not implement is  *)
(* an error at compile time: _execQuery / _parseUpdate itself raises,      *)
(* before the predicate or mutator is applied and whether or not an        *)
(* earlier predicate short-circuits.                                       *)

UnknownQuery(pred) ==
    pred.kind = "operator" /\ ~HasQueryMethod(pred.path, pred.qkey)

UnknownUpdate(action) ==
    action.kind = "operator" /\ ~HasUpdateMethod(action.path, action.ukey)

HasUnknown ==
    \/ kind = "query" /\ \E i \in 1..Len(stack) : UnknownQuery(stack[i])
    \/ kind = "update" /\ \E i \in 1..Len(stack) : UnknownUpdate(stack[i])

-----------------------------------------------------------------------------
(* C7.  The claim: applying the mutators of {$set: {f: v}} twice gives the *)
(* document applying them once gives, the same for {$unset: {f: true}},    *)
(* and for {$rename: {f: g}} after the first application g holds the       *)
(* former value of f and f holds no value, and a second application leaves *)
(* the document unchanged; for every document, f, v and g.                 *)

RenameFrom == input.e[1].v.e[1].k
RenameTo == input.e[1].v.e[1].v.s

Apart(f, g) == ~IsPrefix(f, g) /\ ~IsPrefix(g, f)

-----------------------------------------------------------------------------
(* C8: _execSort(s)(a, b) returns the result of the first comparator, in   *)
(* key declaration order with nested sort mappings flattened to dotted     *)
(* paths, whose result is not zero, and 0 when every comparator returns 0, *)
(* also when s has no keys; each comparator is the compare of the path's   *)
(* type (the base compare for an unregistered path) on the two values at   *)
(* the path, negated when the direction is 'desc' or -1.                   *)

RECURSIVE ClaimedComparators(_, _, _)
ClaimedComparators(P, sorts, prefix) ==
    IF Len(sorts.e) = 0 THEN <<>>
    ELSE
        LET key == prefix \o sorts.e[1].k
            sort == sorts.e[1].v
            first ==
                IF sort.t = "map" THEN ClaimedComparators(P, sort, key)
                ELSE <<[path |-> IF key \in DOMAIN P THEN P[key] ELSE SchemaType(key),
                        key |-> key,
                        descending |-> sort \in {Str(<<"desc">>), Num(-1)}]>>
        IN  first \o ClaimedComparators(P, Map(Tail(sorts.e)), prefix)

ClaimedCompare(c, a, b) ==
    LET r == compare(c.path, getProp(a, c.key), getProp(b, c.key))
    IN  IF c.descending THEN 0 - r ELSE r

ClaimedSortResult(stk, a, b) ==
    IF \E i \in 1..Len(stk) : ClaimedCompare(stk[i], a, b) # 0
    THEN LET i == CHOOSE i \in 1..Len(stk) :
                    /\ ClaimedCompare(stk[i], a, b) # 0
                    /\ \A j \in 1..(i - 1) : ClaimedCompare(stk[j], a, b) = 0
         IN  Num(ClaimedCompare(stk[i], a, b))
    ELSE Num(0)

C8_FirstNonZero ==
    (kind = "sort" /\ pc = "applied") =>
        /\ stack = ClaimedComparators(paths, input, <<>>)
        /\ res = ClaimedSortResult(stack, doc, docB)

-----------------------------------------------------------------------------
(* C9: for a sort document over paths that hold integers, the comparator   *)
(* c of _execSort is a total preorder on documents: c(a, b) = -c(b, a),    *)
(* so c(a, a) = 0, and c(a, b) <= 0 and c(b, c') <= 0 imply c(a, c') <= 0. *)

\* d holds a number at every path of the comparators
HoldsNumbers(stk, d) ==
    \A i \in 1..Len(stk) : Root(getProp(d, stk[i].key)).t = "num"

\* -x
Minus(x) == IF x.t = "num" THEN Num(0 - x.n) ELSE NaN

\* x <= 0
NotAfter(x) == x.t = "num" /\ x.n <= 0

C9_TotalPreorder ==
    (kind = "sort" /\ pc = "applied"
        /\ HoldsNumbers(stack, doc) /\ HoldsNumbers(stack, docB)) =>
        /\ res = Minus(execSortStack(stack, docB, doc))
        /\ execSortStack(stack, doc, doc) = Num(0)
        /\ \A third \in SortDocs :
              (/\ HoldsNumbers(stack, third)
               /\ NotAfter(res)
               /\ NotAfter(execSortStack(stack, docB, third)))
                  => NotAfter(execSortStack(stack, doc, third))

-----------------------------------------------------------------------------
(* C10: _parsePopulate normalizes its input into a list of descriptors in  *)
(* input order; for an item without model, registered or not, the model is *)
(* child.options.ref when the path's type is an Array and options.ref      *)
(* otherwise, and PopulationError('model is required') is raised when      *)
(* there is no ref; for an item whose path is missing or empty             *)
(* PopulationError('path is required') is raised; no other error is.       *)

ClaimedRef(P, key) ==
    IF key \notin DOMAIN P THEN NoRef
    ELSE IF P[key].tag = "Array" THEN P[key].child[1].ref
    ELSE P[key].ref

RECURSIVE ClaimedPopulate(_, _, _)
ClaimedPopulate(P, arr, i) ==
    IF i > Len(arr) THEN Populated(arr, "none")
    ELSE IF ~Truthy(arr[i].path)
    THEN Populated(arr, "PopulationError: path is required")
    ELSE IF Truthy(arr[i].model) THEN ClaimedPopulate(P, arr, i + 1)
    ELSE IF ClaimedRef(P, arr[i].path.s) = NoRef
    THEN Populated(arr, "PopulationError: model is required")
    ELSE ClaimedPopulate(P,
            [arr EXCEPT ![i].model = Str(ClaimedRef(P, arr[i].path.s))], i + 1)

C10_PopulateErrors ==
    (kind = "populate" /\ pc = "applied") =>
        LET claimed == ClaimedPopulate(paths, Normalize(input), 1)
        IN  /\ err = claimed.err
            /\ err = "none" => stack = claimed.arr

-----------------------------------------------------------------------------
(* C11: pre(kind, fn) and post(kind, fn) raise TypeError when kind is not  *)
(* 'save' or 'remove' or when fn is not callable, and then the four hook   *)
(* lists are unchanged; otherwise the call appends exactly one wrapped     *)
(* hook to the end of the list of that phase and kind and leaves the other *)
(* three hook lists unchanged; either way paths, stacks, methods and       *)
(* statics are unchanged, so every hook list is in registration order.     *)

Phases == {"pre", "post"}
HookKinds == {"save", "remove"}

C11_HookRegistration ==
    [][last'.op \in Phases =>
        LET phase == last'.op
            type == last'.name[1]
            fn == last'.arg
            rejected == type \notin HookKinds \/ ~fn.callable
        IN  /\ rejected => err' = "TypeError" /\ hooks' = hooks
            /\ ~rejected =>
                  /\ err' = "none"
                  /\ hooks'[phase][type] = Append(hooks[phase][type], hookWrapper(fn))
                  /\ \A ph \in Phases, ty \in HookKinds :
                        <<ph, ty>> # <<phase, type>> => hooks'[ph][ty] = hooks[ph][ty]
            /\ UNCHANGED <<paths, stacks, methods, statics>>]_vars

\* post('save', f2) after post('save', f1): the list holds f1, f2 in that order
C11_Witness ==
    /\ last.op = "post" /\ err = "none"
    /\ hooks.post.save = <<hookWrapper(Callback(1)), hookWrapper(Callback(2))>>
    /\ hooks.post.remove = <<>> /\ hooks.pre = EmptyHooks.pre

-----------------------------------------------------------------------------
(* C12: after _exportDatabase(doc) no path registered through              *)
(* virtual(name) is present in the document: the export closure of a       *)
(* Virtual path deletes the field, and the export closure of a path whose  *)
(* value gives a defined result writes that result back.                   *)

\* the names virtual(name) was called with
VirtualNames == {input[i].name : i \in {j \in 1..Len(input) : input[j].op = "virtual"}}

\* the document at the time closure i + 1 of the export stack is called
RECURSIVE ExportedUpTo(_)
ExportedUpTo(i) ==
    IF i = 0 THEN doc ELSE ApplyExport(stacks.export[i], ExportedUpTo(i - 1)).d

C12_VirtualNotExported ==
    (kind = "export" /\ pc = "applied") =>
        /\ err = "none"
        /\ \A name \in VirtualNames : name \notin DOMAIN out
        /\ \A i \in 1..Len(stacks.export) :
              LET closure == stacks.export[i]
                  held == getProp(ExportedUpTo(i - 1), closure.name)
                  after == ExportedUpTo(i)
              IN  IF closure.type.tag = "Virtual" \/ IsUndefined(held)
                  THEN closure.name \notin DOMAIN after
                  ELSE getProp(after, closure.name) = held

\* {a: {x: 1}, b: 2} exported by a schema with a, a.x, and the virtuals a.x
\* and b: a is kept, a.x and b are gone
C12_Witness ==
    /\ kind = "export" /\ pc = "applied"
    /\ VirtualNames = {AX, B}
    /\ A \in DOMAIN paths
    /\ AX \in DOMAIN doc /\ B \in DOMAIN doc
    /\ A \in DOMAIN out /\ AX \notin DOMAIN out /\ B \notin DOMAIN out

-----------------------------------------------------------------------------
(* C13: _applySetters runs the setter closures in path insertion order,    *)
(* each validating the value at its path and writing the result back when  *)
(* defined or deleting the field when undefined; when validate raises a    *)
(* ValidationError at path P (a required path whose value is null or       *)
(* absent) the error leaves _applySetters, the closures of the paths       *)
(* inserted after P are not run and the effects of the closures before P   *)
(* remain in the document.                                                 *)

\* what the claim says a setter closure that does not raise leaves
ClaimedSetter(closure, data) ==
    LET held == getProp(data, closure.name)
    IN  IF IsUndefined(held) THEN delProp(data, closure.name)
        ELSE setProp(data, closure.name, held)

\* the document after the first i closures, none of them raising
RECURSIVE SetUpTo(_)
SetUpTo(i) ==
    IF i = 0 THEN doc ELSE ClaimedSetter(stacks.setter[i], SetUpTo(i - 1))

\* closure i finds a required path without value
FindsMissing(i) ==
    /\ stacks.setter[i].type.required
    /\ IsUndefined(getProp(SetUpTo(i - 1), stacks.setter[i].name))

FirstMissing ==
    {i \in 1..Len(stacks.setter) :
        FindsMissing(i) /\ \A j \in 1..(i - 1) : ~FindsMissing(j)}

C13_SettersInOrder ==
    (kind = "setters" /\ pc = "applied") =>
        /\ FirstMissing = {} => err = "none" /\ out = SetUpTo(Len(stacks.setter))
        /\ \A P \in FirstMissing : err = "ValidationError" /\ out = SetUpTo(P - 1)

\* {a: undefined} given to a schema of a and the required b: the setter of
\* a has removed the key when the setter of b raises
C13_Witness ==
    /\ kind = "setters" /\ pc = "applied"
    /\ err = "ValidationError"
    /\ FirstMissing = {2}
    /\ A \in DOMAIN doc /\ A \notin DOMAIN out
    /\ Len(stacks.setter) > 2

-----------------------------------------------------------------------------
(* C14: after any sequence of add / path / virtual calls the i-th closure  *)
(* of each of the four stacks belongs to the i-th path installation; a     *)
(* nested plain-object declaration installs its Object-typed parent path   *)
(* before its child paths, so the stack order is the preorder traversal of *)
(* the declaration tree; a registration call only appends to the stacks,   *)
(* never removing or reordering the entries already there.                 *)

\* an installation: the path and the class of its type
Installation(name, tag) == [name |-> name, tag |-> tag]

\* a traversal: the installations made, and whether it ended normally
Traversal(list, ok) == [list |-> list, ok |-> ok]

RECURSIVE PreorderOf(_, _)
RECURSIVE PreorderFrom(_, _, _)

\* the preorder traversal of the declaration obj at name, up to the first
\* declaration that is no declaration
PreorderOf(name, obj) ==
    CASE obj.form = "null" -> Traversal(<<>>, TRUE)
      [] obj.form = "invalid" -> Traversal(<<>>, FALSE)
      [] obj.form = "array" -> Traversal(<<Installation(name, "Array")>>, TRUE)
      [] obj.form = "plain" ->
            LET below == PreorderFrom(obj.sub, WithDot(name), 1)
            IN  Traversal(<<Installation(name, "Object")>> \o below.list, below.ok)
      [] OTHER -> Traversal(<<Installation(name, obj.tag)>>, TRUE)

PreorderFrom(schema, prefix, i) ==
    IF i > Len(schema) THEN Traversal(<<>>, TRUE)
    ELSE LET first == PreorderOf(StrCat(prefix, schema[i].k), schema[i].v)
             rest == PreorderFrom(schema, prefix, i + 1)
         IN  IF first.ok THEN Traversal(first.list \o rest.list, rest.ok) ELSE first

\* the installations of a registration call
InstalledBy(call) ==
    CASE call.op = "path" -> PreorderOf(call.name, call.arg).list
      [] call.op = "virtual" -> <<Installation(call.name, "Virtual")>>
      [] call.op \in {"add", "new"} -> PreorderFrom(call.arg, EmptyStr, 1).list
      [] OTHER -> <<>>

\* the installations the closures of stack k belong to
InstallationsOf(stk) ==
    [i \in 1..Len(stk) |-> Installation(stk[i].name, stk[i].type.tag)]

C14_StacksInPreorder ==
    /\ \A k \in StackNames : InstallationsOf(stacks[k]) = InstalledBy(last)
    /\ [][\A k \in StackNames :
            /\ SubSeq(stacks'[k], 1, Len(stacks[k])) = stacks[k]
            /\ InstallationsOf(stacks'[k]) =
                  InstallationsOf(stacks[k]) \o InstalledBy(last')
            /\ \A i \in 1..Len(stacks'[k]) :
                  /\ stacks'[k][i].stack = k
                  /\ stacks'[k][i].type = stacks'.getter[i].type]_vars

\* new Schema({a: String}) and then add({a: {x: Number}, b: []}): the new a
\* stands before a.x, and both after the a of the constructor
C14_Witness ==
    /\ last.op = "add" /\ err = "none"
    /\ \E n \in 1..4 :
          /\ Len(stacks.export) = n + 3
          /\ SubSeq(InstallationsOf(stacks.export), n + 1, n + 3) =
                <<Installation(A, "Object"), Installation(AX, "Number"),
                  Installation(B, "Array")>>
          /\ stacks.export[n].name = A

-----------------------------------------------------------------------------
(* C16: a registration call that raises leaves the schema as it was before *)
(* the call: when path(name, decl) raises the TypeError for a declaration  *)
(* that is neither a SchemaType, a function, an array nor a mapping, paths *)
(* and the four stacks are unchanged, and when add(decl) raises because    *)
(* one of several keys of decl, at any depth, has such a declaration, none *)
(* of the keys of decl has been installed in paths or in the stacks.       *)

C16_RaisingCallChangesNothing ==
    [][(last'.op \in {"path", "add"} /\ err' # "none")
          => (err' = "TypeError" /\ UNCHANGED <<paths, stacks>>)]_vars

-----------------------------------------------------------------------------
(* C15: compiling and running queries, updates and sorts never changes the *)
(* schema: _execQuery, _parseUpdate, _parseSort and _execSort, and every   *)
(* application of the closures they return, leave paths, the four stacks,  *)
(* hooks, methods and statics unchanged; a base SchemaType synthesized for *)
(* an unregistered path is not inserted into paths, and path(name) without *)
(* a declaration only reads.                                               *)

\* the closures of a compiled stack that work on a synthesized base type
RECURSIVE Synthesized(_)
Synthesized(stk) ==
    IF stk = <<>> THEN {}
    ELSE LET closure == Head(stk)
             own ==
                 IF "stack" \in DOMAIN closure THEN Synthesized(closure.stack)
                 ELSE IF "path" \in DOMAIN closure
                         /\ closure.path \notin {paths[name] : name \in DOMAIN paths}
                 THEN {closure.path.name}
                 ELSE {}
         IN  own \cup Synthesized(Tail(stk))

\* a step of a query, update, sort or path(name) run
SchemaKept ==
    kind \in {"query", "update", "sort", "path"} =>
        /\ UNCHANGED <<paths, stacks, hooks, methods, statics>>
        /\ kind # "path" => Synthesized(stack') \cap DOMAIN paths' = {}
        /\ kind = "path" =>
              /\ err' = "none"
              /\ stack' = Lookup(paths', input.s)

C15_SchemaUnchanged == [][SchemaKept]_vars

\* {a: 1, b: 2} compiled and applied on a schema with a and a.x: the
\* predicate of b works on a base type, and paths still has no b
C15_Witness ==
    /\ kind = "query" /\ pc = "applied"
    /\ DOMAIN paths = {A, AX}
    /\ Len(stack) = 2
    /\ \A i \in 1..2 : stack[i].kind = "normal"
    /\ stack[1].path = paths[A]
    /\ stack[2].path = SchemaType(B)
    /\ Synthesized(stack) = {B}
    /\ res.n = 2

=============================================================================
